---- MODULE Spec2Model ----
(***************************************************************************)
(* A model of jobspy_bridge.py: a command-line shim that reads three       *)
(* positional arguments, calls jobspy.scrape_jobs once, projects every row *)
(* of the returned table onto seven string fields and prints the list as   *)
(* JSON, or prints a JSON error object on standard error.                  *)
(*                                                                         *)
(* A Python str is a sequence of one-character strings, so that slicing,   *)
(* int() parsing, str() and repr() are computed and not assumed.           *)
(***************************************************************************)
EXTENDS Integers, Sequences, FiniteSets, TLC

\* ------------------------------------------------------------------ bounds

\* The longest short table the external call returns (longer ones: LongTables).
MaxRows == 2
\* The longest source description is DescLimit + MaxOver characters.
MaxOver == 200

\* ------------------------------------------------------- program constants

\* description[:300]
DescLimit == 300
\* results_wanted=50
ResultsWanted == 50
\* hours_old default
DefaultHoursOld == 24

\* --------------------------------------------------------- Python strings

DigitChars == <<"0", "1", "2", "3", "4", "5", "6", "7", "8", "9">>
Digits == {DigitChars[k] : k \in 1..10}
DigitValue(c) == (CHOOSE k \in 1..10 : DigitChars[k] = c) - 1
Whitespace == {" ", "\t", "\n", "\r"}

\* s[a:b] for 0 <= a, 0 <= b (Python slice, end clipped to len(s)).
Slice(s, a, b) == SubSeq(s, a + 1, IF b < Len(s) THEN b ELSE Len(s))

\* str.strip(): the index range left after dropping leading/trailing whitespace.
Strip(s) ==
  LET nonWs == {k \in 1..Len(s) : s[k] \notin Whitespace}
  IN IF nonWs = {} THEN <<>>
     ELSE SubSeq(s, CHOOSE k \in nonWs : \A j \in nonWs : k <= j,
                    CHOOSE k \in nonWs : \A j \in nonWs : k >= j)

RECURSIVE NatToStr(_)
NatToStr(n) ==
  IF n < 10 THEN <<DigitChars[n + 1]>>
  ELSE NatToStr(n \div 10) \o <<DigitChars[(n % 10) + 1]>>

\* str(n) for an int n.
IntToStr(n) == IF n < 0 THEN <<"-">> \o NatToStr(-n) ELSE NatToStr(n)

\* repr(s) for a str s of printable ASCII: quoted with ', or with " when s
\* holds a ' and no "; backslash and the chosen quote are escaped.
RECURSIVE EscapeFor(_, _)
EscapeFor(s, q) ==
  IF s = <<>> THEN <<>>
  ELSE (IF Head(s) \in {"\\", q} THEN <<"\\", Head(s)>> ELSE <<Head(s)>>)
       \o EscapeFor(Tail(s), q)

ReprStr(s) ==
  LET hasSingle == \E k \in 1..Len(s) : s[k] = "'"
      hasDouble == \E k \in 1..Len(s) : s[k] = "\""
      q == IF hasSingle /\ ~hasDouble THEN "\"" ELSE "'"
  IN <<q>> \o EscapeFor(s, q) \o <<q>>

\* repr of a tuple of str: ('a',) for one element, ('a', 'b') for more.
RECURSIVE ReprItems(_)
ReprItems(t) ==
  IF Len(t) = 1 THEN ReprStr(t[1])
  ELSE ReprStr(Head(t)) \o <<",", " ">> \o ReprItems(Tail(t))

ReprTuple(t) ==
  IF t = <<>> THEN <<"(", ")">>
  ELSE IF Len(t) = 1 THEN <<"(">> \o ReprStr(t[1]) \o <<",", ")">>
  ELSE <<"(">> \o ReprItems(t) \o <<")">>

\* ------------------------------------------------------------ int(text)

\* The digits part of an int() literal: after strip() and an optional sign.
IntBody(text) ==
  LET t == Strip(text)
  IN IF t # <<>> /\ t[1] \in {"+", "-"} THEN Tail(t) ELSE t

\* int(text) succeeds: digits, single underscores only between digits.
IntLiteralOk(text) ==
  LET b == IntBody(text)
  IN /\ b # <<>>
     /\ \A k \in 1..Len(b) : b[k] \in Digits \cup {"_"}
     /\ b[1] \in Digits
     /\ b[Len(b)] \in Digits
     /\ \A k \in 1..(Len(b) - 1) : ~(b[k] = "_" /\ b[k + 1] = "_")

RECURSIVE DigitsValue(_, _)
DigitsValue(b, acc) ==
  IF b = <<>> THEN acc
  ELSE IF Head(b) = "_" THEN DigitsValue(Tail(b), acc)
  ELSE DigitsValue(Tail(b), 10 * acc + DigitValue(Head(b)))

\* The value of int(text) when IntLiteralOk(text).
IntValue(text) ==
  LET t == Strip(text)
      v == DigitsValue(IntBody(text), 0)
  IN IF t[1] = "-" THEN -v ELSE v

\* ----------------------------------------------------------- exceptions

\* An exception object: its class and the args it was constructed with.
Exc(type, args) == [type |-> type, args |-> args]

\* str(e): BaseException.__str__, and KeyError.__str__ which shows the repr
\* of a single argument.
StrOfException(x) ==
  IF x.args = <<>> THEN <<>>
  ELSE IF Len(x.args) = 1
       THEN (IF x.type = "KeyError" THEN ReprStr(x.args[1]) ELSE x.args[1])
  ELSE ReprTuple(x.args)

\* sys.argv[1] with len(sys.argv) = 1.
IndexError ==
  Exc("IndexError", << <<"l", "i", "s", "t", " ", "i", "n", "d", "e", "x", " ", "o", "u", "t", " ", "o", "f", " ", "r", "a", "n", "g", "e">> >>)

\* int(text) on a text that is no integer literal.
IntValueError(text) ==
  Exc("ValueError", << <<"i", "n", "v", "a", "l", "i", "d", " ", "l", "i", "t", "e", "r", "a", "l", " ", "f", "o", "r", " ", "i", "n", "t", "(", ")", " ", "w", "i", "t", "h", " ", "b", "a", "s", "e", " ", "1", "0", ":", " ">> \o ReprStr(text) >>)

\* ------------------------------------------- cells and rows of the table

\* The values a cell of the returned DataFrame can hold.
StrCell(s) == [t |-> "str", s |-> s]
NoneCell == [t |-> "NoneType"]
NaNCell == [t |-> "float"]
IntCell(n) == [t |-> "int", n |-> n]
DateCell(y, m, d) == [t |-> "date", y |-> y, m |-> m, d |-> d]
\* An object whose __str__ raises x.
RaisingCell(x) == [t |-> "object", raises |-> x]

\* The default of job.get(key, ""): the empty str.
EmptyDefault == StrCell(<<>>)

\* Zero-padded decimal of width w (date.__str__ is %04d-%02d-%02d).
RECURSIVE ZeroPad(_, _)
ZeroPad(s, w) == IF Len(s) >= w THEN s ELSE ZeroPad(<<"0">> \o s, w)

\* str(v) raises.
StrRaises(v) == v.t = "object"

\* str(v) when it does not raise.
StrOf(v) ==
  CASE v.t = "str" -> v.s
    [] v.t = "NoneType" -> <<"N", "o", "n", "e">>
    [] v.t = "float" -> <<"n", "a", "n">>
    [] v.t = "int" -> IntToStr(v.n)
    [] v.t = "date" -> ZeroPad(NatToStr(v.y), 4) \o <<"-">> \o ZeroPad(NatToStr(v.m), 2)
                       \o <<"-">> \o ZeroPad(NatToStr(v.d), 2)

\* job.get(key, default) on a row (a pandas Series): the value under key, or
\* default when the row has no such key. A present None/NaN is returned as is.
Get(job, key, default) == IF key \in DOMAIN job THEN job[key] ELSE default

\* The keys of an output listing, in the order the dict literal evaluates them.
OutKeys == <<"title", "company", "city", "state", "date_posted", "job_url", "description">>
OutKeySet == {OutKeys[k] : k \in 1..Len(OutKeys)}

\* The column each output key is read from.
SourceKey(k) == IF k = "company" THEN "company_name" ELSE k

\* str(v) as a Python object.
PyStr(v) == StrCell(StrOf(v))

\* Mutant of Truncate: the cut text ends in an ellipsis.
TruncateWithEllipsis(s) ==
  IF Len(s) > DescLimit THEN Slice(s, 0, DescLimit - 3) \o <<".", ".", ".">> ELSE s

\* s[:300]
Truncate(s) == Slice(s, 0, DescLimit)

\* Mutant of FieldValue: the str() call is left out.
FieldValueRaw(job, k) ==
  LET v == Get(job, SourceKey(k), EmptyDefault)
  IN IF k = "description" /\ v.t = "str" THEN StrCell(Truncate(v.s)) ELSE v

\* The value of one entry of the dict literal, when its str() does not raise.
FieldValue(job, k) ==
  LET v == PyStr(Get(job, SourceKey(k), EmptyDefault))
  IN IF k = "description" THEN StrCell(Truncate(v.s)) ELSE v

\* Building the dict for this row raises (some str() call raises).
RowRaises(job) == \E k \in OutKeySet : StrRaises(Get(job, SourceKey(k), EmptyDefault))

\* The exception it raises: that of the first entry, in evaluation order.
RowException(job) ==
  LET bad == {n \in 1..Len(OutKeys) : StrRaises(Get(job, SourceKey(OutKeys[n]), EmptyDefault))}
      first == CHOOSE n \in bad : \A j \in bad : n <= j
  IN Get(job, SourceKey(OutKeys[first]), EmptyDefault).raises

\* The dict appended for a row.
ProjectRow(job) == [k \in OutKeySet |-> FieldValue(job, k)]

\* --------------------------------------------------------------- json.dumps

\* The text json.dumps writes is represented by the JSON value it denotes:
\* str -> string, None -> null, int and float -> number, dict -> object,
\* list -> array. Any other object makes json.dumps raise TypeError.
Serializable(v) == v.t \in {"str", "NoneType", "int", "float"}

JsonValue(v) ==
  CASE v.t = "str" -> [json |-> "string", chars |-> v.s]
    [] v.t = "NoneType" -> [json |-> "null"]
    [] v.t = "int" -> [json |-> "number", n |-> v.n]
    [] v.t = "float" -> [json |-> "number", nan |-> TRUE]

JsonOfDict(d) == [json |-> "object", members |-> [k \in DOMAIN d |-> JsonValue(d[k])]]
JsonOfList(l) == [json |-> "array", items |-> [n \in 1..Len(l) |-> JsonOfDict(l[n])]]

\* json.dumps(results) raises: some value of some dict is not serializable.
DumpsRaises(l) == \E n \in 1..Len(l) : \E k \in DOMAIN l[n] : ~Serializable(l[n][k])

NotSerializable ==
  Exc("TypeError", << <<"O", "b", "j", "e", "c", "t", " ", "i", "s", " ", "n", "o", "t", " ", "J", "S", "O", "N", " ", "s", "e", "r", "i", "a", "l", "i", "z", "a", "b", "l", "e">> >>)

\* Mutant of ErrorObject: str(e.args) in place of str(e).
ErrorObjectOfArgs(x) == JsonOfDict([error |-> StrCell(ReprTuple(x.args))])

\* json.dumps({"error": str(e)})
ErrorObject(x) == JsonOfDict([error |-> StrCell(StrOfException(x))])

\* What the interpreter writes for an exception nothing catches.
Traceback(x) == [traceback |-> x]

\* ------------------------------------------------------------------ inputs

Script == <<"j", "o", "b", "s", "p", "y", "_", "b", "r", "i", "d", "g", "e", ".", "p", "y">>
Nurse == <<"n", "u", "r", "s", "e">>
Dev == <<"d", "e", "v">>
Austin == <<"A", "u", "s", "t", "i", "n", ",", " ", "T", "X">>
Extra == <<"e", "x", "t", "r", "a">>
UnitedStates == <<"U", "n", "i", "t", "e", "d", " ", "S", "t", "a", "t", "e", "s">>
Indeed == <<"i", "n", "d", "e", "e", "d">>
USA == <<"U", "S", "A">>

SearchTerms == {Nurse, Dev}
Locations == {Austin}

\* Third arguments int() accepts, with the value it gives them.
IntegerTexts ==
  { <<"4", "8">>, <<" ", "7", " ">>, <<"-", "3">>, <<"1", "_", "0">>, <<"+", "5">>,
    <<"0", "0", "1", "2">> }
\* Third arguments int() rejects.
NonIntegerTexts ==
  { <<"a", "b", "c">>, <<"4", ".", "5">>, <<>>, <<"_", "1">>, <<"7", "-">>,
    <<"1", "_", "_", "0">>, <<"-">>, <<"-", " ", "3">> }
HoursTexts == IntegerTexts \cup NonIntegerTexts

\* sys.argv: the script name followed by zero to four arguments.
ArgVectors ==
  {<<Script>>}
  \cup {<<Script, s>> : s \in SearchTerms}
  \cup {<<Script, s, l>> : s \in SearchTerms, l \in Locations}
  \cup {<<Script, s, l, h>> : s \in SearchTerms, l \in Locations, h \in HoursTexts}
  \cup {<<Script, s, l, h, Extra>> : s \in SearchTerms, l \in Locations,
                                     h \in {<<"4", "8">>, <<"a", "b", "c">>}}

\* Exceptions the external call or a cell's __str__ can raise.
RateLimited == <<"r", "a", "t", "e", " ", "l", "i", "m", "i", "t", "e", "d">>
ExceptionTypes == {"Exception", "ValueError", "KeyError"}
ExceptionArgs ==
  { <<>>, <<RateLimited>>, << <<"c", "a", "n", "'", "t", " ", "p", "a", "r", "s", "e">> >>,
    << <<"b", "l", "o", "c", "k", "e", "d">>, <<"4", "2", "9">> >> }
ScrapeExceptions == {Exc(t, a) : t \in ExceptionTypes, a \in ExceptionArgs}

\* A description of n characters whose characters differ by position.
Desc(n) == [k \in 1..n |-> <<"A", "b", "c">>[(k % 3) + 1]]
DescLengths == {0, 1, DescLimit - 1, DescLimit, DescLimit + 1, DescLimit + MaxOver}

\* A full row; it also carries a column the projection does not read.
BaseRow ==
  [ site |-> StrCell(Indeed),
    title |-> StrCell(<<"E", "n", "g", "i", "n", "e", "e", "r">>),
    company_name |-> StrCell(<<"A", "c", "m", "e">>),
    city |-> StrCell(<<"S", "p", "r", "i", "n", "g", "f", "i", "e", "l", "d">>),
    state |-> StrCell(<<"I", "L">>),
    date_posted |-> StrCell(<<"2", "0", "2", "4", "-", "0", "1", "-", "0", "1">>),
    job_url |-> StrCell(<<"h", "t", "t", "p", ":", "/", "/", "x">>),
    description |-> StrCell(Desc(DescLimit + MaxOver)) ]
SourceKeys == {SourceKey(OutKeys[k]) : k \in 1..Len(OutKeys)}

Without(job, key) == [k \in (DOMAIN job) \ {key} |-> job[k]]
\* A row with no column at all, and one whose seven columns hold None.
EmptyRow == [k \in {} |-> NoneCell]
NoneRow == [k \in SourceKeys |-> NoneCell]
ShortRow == [BaseRow EXCEPT !.description = StrCell(Desc(1))]
RaisingRow == [ShortRow EXCEPT !.state = RaisingCell(Exc("TypeError", <<RateLimited>>))]

VariantCells ==
  {NoneCell, NaNCell, IntCell(429), IntCell(-7), DateCell(2024, 1, 5), StrCell(<<>>)}
SingleRows ==
  {BaseRow, EmptyRow, NoneRow, ShortRow, RaisingRow}
  \cup {[BaseRow EXCEPT ![f] = v] : f \in SourceKeys, v \in VariantCells}
  \cup {Without(BaseRow, f) : f \in SourceKeys}
  \cup {[BaseRow EXCEPT !.description = StrCell(Desc(n))] : n \in DescLengths}
  \cup {[BaseRow EXCEPT ![f] = RaisingCell(e)] : f \in {"title", "description"},
                                                e \in {Exc("KeyError", <<RateLimited>>)}}
CoreRows == {BaseRow, EmptyRow, NoneRow, ShortRow, RaisingRow}

RECURSIVE TablesOfLength(_)
TablesOfLength(n) ==
  IF n = 0 THEN {<<>>}
  ELSE {Append(t, r) : t \in TablesOfLength(n - 1), r \in CoreRows}

\* Result sets longer than results_wanted: two rows alternating.
LongTables ==
  { [k \in 1..(ResultsWanted + 1) |-> IF k % 2 = 1 THEN a ELSE b] :
      a \in {ShortRow, EmptyRow}, b \in {ShortRow, NoneRow} }
  \cup { [k \in 1..(ResultsWanted + 1) |-> IF k <= ResultsWanted THEN ShortRow ELSE RaisingRow] }

\* The tables the external call can return.
JobTables ==
  UNION {TablesOfLength(n) : n \in 0..MaxRows}
  \cup {<<r>> : r \in SingleRows}
  \cup LongTables

\* ------------------------------------------------------------------- state

VARIABLES
  argv,         \* sys.argv
  pc,           \* the statement the interpreter is at
  bound,        \* the names of the module namespace that are bound so far
  search_term,  \* the module's globals; each holds a placeholder until bound
  location,
  hours_old,
  jobs,
  results,
  e,            \* the exception in flight, bound by the except clause
  cursor,       \* rows the for loop has consumed
  calls,        \* the keyword arguments of every scrape_jobs call made
  stdout,       \* what was printed to standard output, in order
  stderr,       \* what was written to standard error, in order
  exit_status   \* <<status>> once the process has exited, <<>> while it runs

vars == <<argv, pc, bound, search_term, location, hours_old, jobs, results, e,
          cursor, calls, stdout, stderr, exit_status>>

\* sys.argv[k], 0-based.
Arg(k) == argv[k + 1]

Init ==
  /\ argv \in ArgVectors
  /\ pc = "l4"
  /\ bound = {}
  /\ search_term = <<>>
  /\ location = <<>>
  /\ hours_old = 0
  /\ jobs = <<>>
  /\ results = <<>>
  /\ e = Exc("", <<>>)
  /\ cursor = 0
  /\ calls = <<>>
  /\ stdout = <<>>
  /\ stderr = <<>>
  /\ exit_status = <<>>

\* ----------------------------------------------------------------- actions

\* An exception raised outside the try statement: nothing catches it.
RaiseUncaught(x) == e' = x /\ pc' = "uncaught" /\ bound' = bound

\* An exception raised inside the try statement goes to the except clause,
\* which binds it to e.
RaiseInTry(x) == e' = x /\ pc' = "l29" /\ bound' = bound \cup {"e"}

\* Line 4: search_term = sys.argv[1]
ReadSearchTerm ==
  /\ pc = "l4"
  /\ IF Len(argv) > 1
     THEN search_term' = Arg(1) /\ bound' = bound \cup {"search_term"} /\ pc' = "l5" /\ e' = e
     ELSE RaiseUncaught(IndexError) /\ search_term' = search_term
  /\ UNCHANGED <<argv, location, hours_old, jobs, results, cursor, calls, stdout,
                 stderr, exit_status>>

\* Mutant of LocationArg: the length test is off by one.
LocationArgOffByOne == IF Len(argv) > 3 THEN Arg(2) ELSE UnitedStates

\* Line 5: the value assigned to location.
LocationArg == IF Len(argv) > 2 THEN Arg(2) ELSE UnitedStates

\* Line 5: location = sys.argv[2] if len(sys.argv) > 2 else "United States"
ReadLocation ==
  /\ pc = "l5"
  /\ location' = LocationArg
  /\ bound' = bound \cup {"location"}
  /\ pc' = "l6"
  /\ UNCHANGED <<argv, search_term, hours_old, jobs, results, cursor, e, calls,
                 stdout, stderr, exit_status>>

\* Line 6: int(sys.argv[3]) raises.
HoursOldRaises == Len(argv) > 3 /\ ~IntLiteralOk(Arg(3))

\* Line 6: the value assigned to hours_old when int() does not raise.
HoursOldArg == IF Len(argv) > 3 THEN IntValue(Arg(3)) ELSE DefaultHoursOld

\* Mutant of ReadHoursOld: a text int() rejects falls back to the default.
ReadHoursOldDefaulting ==
  /\ pc = "l6"
  /\ hours_old' = (IF HoursOldRaises THEN DefaultHoursOld ELSE HoursOldArg)
  /\ bound' = bound \cup {"hours_old"}
  /\ pc' = "l9"
  /\ UNCHANGED <<argv, search_term, location, jobs, results, cursor, e, calls, stdout,
                 stderr, exit_status>>

\* Line 6: hours_old = int(sys.argv[3]) if len(sys.argv) > 3 else 24
ReadHoursOld ==
  /\ pc = "l6"
  /\ IF HoursOldRaises
     THEN RaiseUncaught(IntValueError(Arg(3))) /\ hours_old' = hours_old
     ELSE hours_old' = HoursOldArg /\ bound' = bound \cup {"hours_old"} /\ pc' = "l9" /\ e' = e
  /\ UNCHANGED <<argv, search_term, location, jobs, results, cursor, calls, stdout,
                 stderr, exit_status>>

\* Lines 9-16: the keyword arguments of the scrape_jobs call.
ScrapeKwargs ==
  [ site_name |-> <<Indeed>>,
    search_term |-> search_term,
    location |-> location,
    results_wanted |-> ResultsWanted,
    hours_old |-> hours_old,
    country_indeed |-> USA ]

\* Lines 9-16: scrape_jobs is called and returns a table, bound to jobs.
ScrapeReturns ==
  /\ pc = "l9"
  /\ calls' = Append(calls, ScrapeKwargs)
  /\ \E t \in JobTables : jobs' = t
  /\ bound' = bound \cup {"jobs"}
  /\ pc' = "l17"
  /\ UNCHANGED <<argv, search_term, location, hours_old, results, cursor, e, stdout,
                 stderr, exit_status>>

\* Mutant of ScrapeRaises: a failed call is retried once before giving up.
ScrapeRaisesRetrying ==
  /\ pc = "l9"
  /\ calls' = Append(Append(calls, ScrapeKwargs), ScrapeKwargs)
  /\ \E x \in ScrapeExceptions : RaiseInTry(x)
  /\ UNCHANGED <<argv, search_term, location, hours_old, jobs, results, cursor,
                 stdout, stderr, exit_status>>

\* Lines 9-16: scrape_jobs is called and raises.
ScrapeRaises ==
  /\ pc = "l9"
  /\ calls' = Append(calls, ScrapeKwargs)
  /\ \E x \in ScrapeExceptions : RaiseInTry(x)
  /\ UNCHANGED <<argv, search_term, location, hours_old, jobs, results, cursor,
                 stdout, stderr, exit_status>>

\* Line 17: results = []
InitResults ==
  /\ pc = "l17"
  /\ results' = <<>>
  /\ bound' = bound \cup {"results"}
  /\ cursor' = 0
  /\ pc' = "l18"
  /\ UNCHANGED <<argv, search_term, location, hours_old, jobs, e, calls, stdout,
                 stderr, exit_status>>

\* Mutant of HasNextRow: the loop stops after results_wanted rows.
HasNextRowCapped == cursor < Len(jobs) /\ cursor < ResultsWanted

\* Line 18: jobs.iterrows() has another row.
HasNextRow == cursor < Len(jobs)

\* Mutant of ProjectNextRow: the list so far is printed after every row.
ProjectNextRowStreaming ==
  /\ pc = "l18"
  /\ HasNextRow
  /\ LET job == jobs[cursor + 1]
     IN IF RowRaises(job)
        THEN RaiseInTry(RowException(job)) /\ UNCHANGED <<results, cursor, stdout>>
        ELSE /\ results' = Append(results, ProjectRow(job))
             /\ cursor' = cursor + 1
             /\ stdout' = Append(stdout, JsonOfList(results'))
             /\ UNCHANGED <<pc, e, bound>>
  /\ UNCHANGED <<argv, search_term, location, hours_old, jobs, calls, stderr,
                 exit_status>>

\* Lines 18-27: one pass of the loop body: the row's dict is built and appended,
\* or building it raises and nothing is appended.
ProjectNextRow ==
  /\ pc = "l18"
  /\ HasNextRow
  /\ LET job == jobs[cursor + 1]
     IN IF RowRaises(job)
        THEN RaiseInTry(RowException(job)) /\ UNCHANGED <<results, cursor>>
        ELSE /\ results' = Append(results, ProjectRow(job))
             /\ cursor' = cursor + 1
             /\ UNCHANGED <<pc, e, bound>>
  /\ UNCHANGED <<argv, search_term, location, hours_old, jobs, calls, stdout,
                 stderr, exit_status>>

\* Line 18: the iterator is exhausted; the loop ends.
LoopExhausted ==
  /\ pc = "l18"
  /\ ~HasNextRow
  /\ pc' = "l28"
  /\ UNCHANGED <<argv, bound, search_term, location, hours_old, jobs, results,
                 cursor, e, calls, stdout, stderr, exit_status>>

\* Line 28: print(json.dumps(results))
PrintResults ==
  /\ pc = "l28"
  /\ IF DumpsRaises(results)
     THEN RaiseInTry(NotSerializable) /\ stdout' = stdout
     ELSE /\ stdout' = Append(stdout, JsonOfList(results))
          /\ pc' = "end"
          /\ UNCHANGED <<e, bound>>
  /\ UNCHANGED <<argv, search_term, location, hours_old, jobs, results, cursor,
                 calls, stderr, exit_status>>

\* Lines 29-31: print(json.dumps({"error": str(e)}), file=sys.stderr); sys.exit(1)
HandleException ==
  /\ pc = "l29"
  /\ stderr' = Append(stderr, ErrorObject(e))
  /\ exit_status' = <<1>>
  /\ pc' = "exited"
  /\ UNCHANGED <<argv, bound, search_term, location, hours_old, jobs, results,
                 cursor, e, calls, stdout>>

\* The end of the module is reached: the interpreter exits with status 0.
ModuleEnd ==
  /\ pc = "end"
  /\ exit_status' = <<0>>
  /\ pc' = "exited"
  /\ UNCHANGED <<argv, bound, search_term, location, hours_old, jobs, results,
                 cursor, e, calls, stdout, stderr>>

\* An exception of lines 4-6 reaches the top level: the interpreter writes the
\* traceback to standard error and exits with status 1.
UncaughtExit ==
  /\ pc = "uncaught"
  /\ stderr' = Append(stderr, Traceback(e))
  /\ exit_status' = <<1>>
  /\ pc' = "exited"
  /\ UNCHANGED <<argv, bound, search_term, location, hours_old, jobs, results,
                 cursor, e, calls, stdout>>

Next ==
  \/ ReadSearchTerm
  \/ ReadLocation
  \/ ReadHoursOld
  \/ ScrapeReturns
  \/ ScrapeRaises
  \/ InitResults
  \/ ProjectNextRow
  \/ LoopExhausted
  \/ PrintResults
  \/ HandleException
  \/ ModuleEnd
  \/ UncaughtExit

Spec == Init /\ [][Next]_vars

\* ------------------------------------------------------------------ claims

Exited == pc = "exited"
Succeeded == pc = "exited" /\ exit_status = <<0>>
\* An exception was raised inside the try statement (the call is its first step).
RaisedInTry == "e" \in bound
\* The external call itself raised: it was made and bound no table.
ScrapeRaised == calls # <<>> /\ "jobs" \notin bound /\ "e" \in bound

IsJsonArray(item) == "json" \in DOMAIN item /\ item.json = "array"
IsErrorObject(item) ==
  /\ "json" \in DOMAIN item
  /\ item.json = "object"
  /\ DOMAIN item.members = {"error"}
  /\ item.members.error.json = "string"
\* Standard output holds one JSON array with one element per returned row.
WholeArrayPrinted ==
  /\ Len(stdout) = 1
  /\ IsJsonArray(stdout[1])
  /\ Len(stdout[1].items) = Len(jobs)

\* C1: standard output is empty or holds the complete JSON array of all rows
\* returned by the external call; once an exception was raised inside the try
\* statement (by the call, or by row k after rows 1..k-1 were projected)
\* standard output is empty and standard error holds only the error object; no
\* run writes both an array to standard output and an error object to
\* standard error.
C1_NoPartialOutput ==
  /\ stdout = <<>> \/ (WholeArrayPrinted /\ pc \in {"end", "exited"})
  /\ RaisedInTry => stdout = <<>>
  /\ (Exited /\ RaisedInTry) => (Len(stderr) = 1 /\ IsErrorObject(stderr[1]))
  /\ ~(stdout # <<>> /\ \E n \in 1..Len(stderr) : IsErrorObject(stderr[n]))

\* C1 witness: a run ended after a row raised with earlier rows already projected.
C1_Witness == Exited /\ RaisedInTry /\ "jobs" \in bound /\ cursor >= 1 /\ stdout = <<>>

\* C2: every run ends in one of two outcomes: exit status 0 with a JSON array
\* on standard output, or exit status 1 with a single {"error": message}
\* object on standard error (also for a missing search_term and a non-integer
\* hours_old).
C2_TwoOutcomes ==
  Exited =>
    \/ exit_status = <<0>> /\ Len(stdout) = 1 /\ IsJsonArray(stdout[1]) /\ stderr = <<>>
    \/ exit_status = <<1>> /\ Len(stderr) = 1 /\ IsErrorObject(stderr[1]) /\ stdout = <<>>

\* C3: when the external call raises an exception whose message (str(e)) is m,
\* standard error receives exactly the object {"error": m}, with no other key
\* telling the exception's class, and the exit status is 1; for the example of
\* the specification, an exception built from "rate limited", m is that text.
C3_ExternalErrorReported ==
  (Exited /\ ScrapeRaised) =>
    /\ exit_status = <<1>>
    /\ stdout = <<>>
    /\ Len(stderr) = 1
    /\ IsErrorObject(stderr[1])
    /\ stderr[1].members.error.chars = StrOfException(e)
    /\ (e.args = <<RateLimited>> /\ e.type \in {"Exception", "ValueError"})
         => stderr[1].members.error.chars = RateLimited

\* C3 witness: the call raised with the message "rate limited" and the run ended.
C3_Witness == Exited /\ ScrapeRaised /\ e = Exc("Exception", <<RateLimited>>)

\* C4: with a third argument that is no integer literal, the external call is
\* never made, nothing is written to standard output and the run fails.
C4_NonIntegerHoursFailsBeforeCall ==
  (Len(argv) > 3 /\ argv[4] \in NonIntegerTexts) =>
    /\ calls = <<>>
    /\ stdout = <<>>
    /\ pc \in {"l4", "l5", "l6", "uncaught", "exited"}
    /\ Exited => exit_status = <<1>>

\* C4 witness: a run with hours_old = "abc" has ended.
C4_Witness == Exited /\ Len(argv) > 3 /\ argv[4] = <<"a", "b", "c">>

\* C5: on success every element of the array on standard output is an object
\* with exactly the seven keys title, company, city, state, date_posted,
\* job_url, description, each mapped to a JSON string.
C5_SevenStringFields ==
  Succeeded =>
    /\ WholeArrayPrinted
    /\ \A n \in 1..Len(stdout[1].items) :
         LET item == stdout[1].items[n]
         IN /\ item.json = "object"
            /\ DOMAIN item.members =
                 {"title", "company", "city", "state", "date_posted", "job_url", "description"}
            /\ \A k \in DOMAIN item.members : item.members[k].json = "string"

\* C5 witness: a successful run whose table has a row holding a non-str value.
C5_Witness ==
  /\ Succeeded
  /\ \E n \in 1..Len(jobs) : \E k \in DOMAIN jobs[n] : jobs[n][k].t \in {"int", "date", "NoneType"}

\* C6: every emitted description has at most 300 characters and is the first
\* min(300, n) characters of the string form of the source description of n
\* characters; one of at most 300 characters is emitted unchanged.
C6_DescriptionPrefix ==
  Succeeded =>
    /\ WholeArrayPrinted
    /\ \A n \in 1..Len(jobs) :
         LET src == StrOf(Get(jobs[n], "description", EmptyDefault))
             out == stdout[1].items[n].members.description.chars
         IN /\ Len(out) <= 300
            /\ Len(out) = (IF Len(src) < 300 THEN Len(src) ELSE 300)
            /\ \A c \in 1..Len(out) : out[c] = src[c]
            /\ Len(src) <= 300 => out = src

\* C6 witness: a successful run that cut a description longer than 300.
C6_Witness ==
  /\ Succeeded
  /\ \E n \in 1..Len(jobs) :
       /\ Len(StrOf(Get(jobs[n], "description", EmptyDefault))) > 300
       /\ Len(stdout[1].items[n].members.description.chars) = 300

\* C7: a missing source value yields the empty string in the output, both when
\* the row has no such key and when the key holds None or NaN.
C7_MissingYieldsEmpty ==
  Succeeded =>
    /\ WholeArrayPrinted
    /\ \A n \in 1..Len(jobs) : \A k \in DOMAIN stdout[1].items[n].members :
         LET key == IF k = "company" THEN "company_name" ELSE k
             missing == key \notin DOMAIN jobs[n] \/ jobs[n][key].t \in {"NoneType", "float"}
         IN missing => stdout[1].items[n].members[k] = [json |-> "string", chars |-> <<>>]

\* The value of each integer third argument of the model's inputs.
ExpectedHours(text) ==
  CASE text = <<"4", "8">> -> 48
    [] text = <<" ", "7", " ">> -> 7
    [] text = <<"-", "3">> -> -3
    [] text = <<"1", "_", "0">> -> 10
    [] text = <<"+", "5">> -> 5
    [] text = <<"0", "0", "1", "2">> -> 12

\* C8: the external call gets search_term from the first argument unchanged,
\* location from the second argument or "United States" when it is omitted,
\* and hours_old from the third argument or 24 when it is omitted.
C8_CallArguments ==
  \A n \in 1..Len(calls) :
    /\ calls[n].search_term = argv[2]
    /\ calls[n].location = (IF Len(argv) >= 3 THEN argv[3] ELSE UnitedStates)
    /\ calls[n].hours_old = (IF Len(argv) >= 4 THEN ExpectedHours(argv[4]) ELSE 24)

\* C8 witness: the call was made by a run given the search term only.
C8_Witness == calls # <<>> /\ Len(argv) = 2

\* C9: on success the array has as many elements as the result set has rows
\* and its i-th element is the projection of the i-th row, also when the
\* result set has more than 50 rows.
C9_AllRowsInOrder ==
  Succeeded =>
    /\ Len(stdout) = 1
    /\ IsJsonArray(stdout[1])
    /\ Len(stdout[1].items) = Len(jobs)
    /\ \A n \in 1..Len(jobs) : stdout[1].items[n] = JsonOfDict(ProjectRow(jobs[n]))

\* C9 witness: a successful run whose result set has more than 50 rows of two kinds.
C9_Witness == Succeeded /\ Len(jobs) > 50 /\ jobs[1] # jobs[2]

\* Argument parsing succeeds: a search term, and an integer third argument if any.
ArgumentsParse == Len(argv) >= 2 /\ (Len(argv) >= 4 => argv[4] \in IntegerTexts)

\* C10: the external call is made at most once in a run, exactly once when
\* argument parsing succeeds, never again after it failed, and always with
\* site_name = ["indeed"], results_wanted = 50, country_indeed = "USA".
C10_OneFixedCall ==
  /\ Len(calls) <= 1
  /\ (Exited /\ ArgumentsParse) => Len(calls) = 1
  /\ ~ArgumentsParse => calls = <<>>
  /\ \A n \in 1..Len(calls) :
       /\ calls[n].site_name = << <<"i", "n", "d", "e", "e", "d">> >>
       /\ calls[n].results_wanted = 50
       /\ calls[n].country_indeed = <<"U", "S", "A">>

\* C10 witness: the call raised and the run ended with that single call.
C10_Witness == Exited /\ ScrapeRaised /\ Len(calls) = 1

====
